---------------------------- MODULE Spec2Model ----------------------------
(***************************************************************************)
(* THide (amnweb/thide): a tray utility that keeps the Windows taskbar     *)
(* hidden.  The model covers src/src/main.rs (instance guard, AppBar state *)
(* manager, IPC listener thread, monitor thread with its TaskbarCache, the *)
(* event-loop callback) and src/src/cli.rs (the command dispatcher).       *)
(*                                                                         *)
(* Granularity: one step per system call that another thread or process    *)
(* can observe (CreateMutexW, SHAppBarMessage, ShowWindow, PostMessageW,   *)
(* an atomic load/store, ...).  A window enumeration (the FindWindowExW    *)
(* loop) is one step.                                                      *)
(***************************************************************************)
EXTENDS Integers, Sequences, FiniteSets, TLC

----------------------------------------------------------------------------
(* Program constants *)

TASKBAR_MONITOR_INTERVAL_MS == 500
TASKBAR_CACHE_REFRESH_MS == 5000
\* TaskbarCache::new back-dates last_updated by 10 s
NEW_CACHE_AGE_MS == 10000
\* windows crate: ABS_AUTOHIDE = 0x1
ABS_AUTOHIDE == 1
\* windows crate: WM_APP = 0x8000
WM_APP == 32768
WM_THIDE_SHOW == WM_APP + 1
WM_THIDE_HIDE == WM_APP + 2
WM_THIDE_QUIT == WM_APP + 3

----------------------------------------------------------------------------
(* Bounds of the model *)

\* GUI processes that may ever be launched where CLI processes run too
MaxProcs == 2
\* GUI processes that may ever be launched where the user alone launches
MaxLaunch == 3
\* CLI invocations that may ever be made
MaxCli == 2
\* show/hide/stop/quit commands that may ever be sent to the one instance of
\* Spec
MaxSend == 1
\* tray-menu clicks that may ever be made
MaxClicks == 1
\* asynchronous shell operations (re-show, explorer restart, new monitor)
MaxShellOps == 1
\* callbacks the event loop still makes after elwt.exit(); the last one is
\* LoopExiting, which winit always delivers
MaxExitCallbacks == 1
\* messages other than the three of the protocol that may ever reach a
\* listener window
MaxOther == 1

Min(a, b) == IF a < b THEN a ELSE b

Procs == 1 .. MaxLaunch
GuardProcs == 1 .. MaxProcs
Clis == 1 .. MaxCli
SendClis == 1 .. Min(MaxSend, MaxCli)
\* AppBar state words the shell may hold at the start (bit 0 is ABS_AUTOHIDE,
\* bit 1 is ABS_ALWAYSONTOP): auto-hide off with always-on-top, and auto-hide on
AppBarStates == {2, 1}
\* taskbar windows present before the program runs (primary and one secondary)
InitTaskbars == {1, 2}

----------------------------------------------------------------------------
VARIABLES
  \* ---- operating system ----
  appbar,        \* the OS AppBar state word (ABM_GETSTATE / ABM_SETSTATE)
  mutexHandles,  \* processes holding an open handle to the named mutex
  taskbars,      \* existing explorer taskbar windows (HWNDs)
  visible,       \* the taskbar windows that are visible
  hwndCount,     \* HWNDs handed out so far
  shellOps,      \* shell operations so far
  ipcWindows,    \* processes whose THideIPCWindow window exists
  msgq,          \* msgq[p]: messages posted to p's IPC window, oldest first
  \* ---- GUI process: main (UI) thread ----
  nLaunched,     \* GUI processes launched so far
  pc,            \* pc[p]: position of p's main thread
  guardRes,      \* result of check_single_instance: none/created/exists/failed
  mgr,           \* TaskbarStateManager: [original_state, enforced_state], or NoMgr
  should_hide,   \* the AtomicBool VisibilityIntent
  userq,         \* user events sent through the EventLoopProxy, oldest first
  menuq,         \* MenuEvent channel, oldest first
  clicks,        \* tray clicks so far
  uiEv,          \* event being handled: Startup/Show/Hide/Quit
  uiSrc,         \* where it came from: startup/ipc/tray
  uiList,        \* handles set_taskbar_state still has to command
  exitReq,       \* elwt.exit() has been called
  exitCalls,     \* callbacks made since the loop began exiting
  \* ---- GUI process: IPC listener thread ----
  ipcPc, classOk, proxy, quitPosted,
  \* ---- GUI process: monitor thread ----
  monPc, cache, monList,
  \* ---- CLI processes ----
  cli,
  \* ---- history (not program state) ----
  appbar0,       \* the AppBar state before any process ran
  lastWrite,     \* last value p wrote to the AppBar state, -1 if none
  restoreCalls,  \* restore() invocations of p
  touched,       \* p read or wrote the AppBar state or commanded a taskbar
  handled,       \* events whose handler p has completed, oldest first
  exitPath,      \* how p's event loop ended: none/quit/error
  lastGet,       \* the monitor's latest TaskbarCache.get
  pending,       \* windows visible when the current poll began, not yet hidden
  missed,        \* windows a completed poll left visible
  allShown,      \* since the latest Show handler began, every taskbar was
                 \* visible at once with should_hide false
  occurred,      \* what was posted to p's listener window, oldest first:
                 \* <<"ipc", cmd>> by a CLI process, <<"other", msg>> by others
  forwarded,     \* the events p's listener passed to send_event, oldest first
  lastArrived,   \* the event that reached p's main thread last (was put
                 \* into one of its two queues last), <<source, event>>
  lastUiCmd      \* the latest ShowWindow command of p's main thread

osVars == <<appbar, mutexHandles, taskbars, visible, hwndCount, shellOps, ipcWindows, msgq>>
uiVars == <<nLaunched, pc, guardRes, mgr, should_hide, userq, menuq, clicks, uiEv, uiSrc,
            uiList, exitReq, exitCalls>>
ipcVars == <<ipcPc, classOk, proxy, quitPosted>>
monVars == <<monPc, cache, monList>>
histVars == <<appbar0, lastWrite, restoreCalls, touched, handled, exitPath, lastGet,
              pending, missed, allShown>>
traceVars == <<occurred, forwarded, lastArrived, lastUiCmd>>
vars == <<osVars, uiVars, ipcVars, monVars, cli, histVars, traceVars>>

----------------------------------------------------------------------------
(* Helpers *)

RECURSIVE SortedSeq(_)
SortedSeq(S) ==
  IF S = {} THEN <<>>
  ELSE LET m == CHOOSE x \in S : \A y \in S : x <= y
       IN <<m>> \o SortedSeq(S \ {m})

Range(s) == {s[i] : i \in DOMAIN s}

\* v | bit, for a single-bit mask
BitOr(v, bit) == IF (v \div bit) % 2 = 1 THEN v ELSE v + bit

\* find_all_explorer_taskbars_uncached: the explorer-owned Shell_TrayWnd and
\* Shell_SecondaryTrayWnd windows existing now, as a Vec
find_all_explorer_taskbars_uncached == SortedSeq(taskbars)

find_all_explorer_taskbars == find_all_explorer_taskbars_uncached

\* ShowWindow(hwnd, SW_SHOW / SW_HIDE): the visible set afterwards; a handle
\* of a destroyed window does nothing
ShowWindow(hwnd, show) ==
  IF hwnd \notin taskbars THEN visible
  ELSE IF show THEN visible \cup {hwnd} ELSE visible \ {hwnd}

\* TaskbarCache; last_updated is kept as the age (now - last_updated) in ms,
\* saturated at NEW_CACHE_AGE_MS: only its comparison with the threshold is read
TaskbarCacheNew == [handles |-> <<>>, age |-> NEW_CACHE_AGE_MS]

\* fault variant of should_refresh: the cache is never trusted
should_refresh_always(c) == TRUE

\* fault variant of should_refresh: the threshold itself already refreshes
should_refresh_from_threshold(c) == c.age >= TASKBAR_CACHE_REFRESH_MS

should_refresh(c) == c.age > TASKBAR_CACHE_REFRESH_MS

update(c, hs) == [handles |-> hs, age |-> 0]

get(c) == IF should_refresh(c) THEN update(c, find_all_explorer_taskbars_uncached) ELSE c

\* fault variant of IpcMessageOf: every identifier from WM_THIDE_QUIT up quits
IpcMessageOfLoose(msg) ==
  IF msg = WM_THIDE_SHOW THEN "Show"
  ELSE IF msg = WM_THIDE_HIDE THEN "Hide"
  ELSE IF msg >= WM_THIDE_QUIT THEN "Quit"
  ELSE "None"

\* ipc_window_proc's translation of a message identifier
IpcMessageOf(msg) ==
  IF msg = WM_THIDE_SHOW THEN "Show"
  ELSE IF msg = WM_THIDE_HIDE THEN "Hide"
  ELSE IF msg = WM_THIDE_QUIT THEN "Quit"
  ELSE "None"

\* handle_cli_command's table for the commands that talk to a running instance
CliMessageOf(cmd) ==
  IF cmd = "show" THEN WM_THIDE_SHOW
  ELSE IF cmd = "hide" THEN WM_THIDE_HIDE
  ELSE WM_THIDE_QUIT

SendCmds == {"show", "hide", "stop", "quit"}
\* message identifiers next to the three of the protocol, which
\* ipc_window_proc hands to DefWindowProcW
OtherMsgs == {WM_APP, WM_APP + 4}
CliCmds == SendCmds \cup {"start"}
\* the arguments that ask for the usage text
UsageCmds == {"help", "--help", "-h"}
\* first arguments a user may type: the commands, two of them in another
\* letter case, and two that are no command
CliArgs == CliCmds \cup UsageCmds \cup {"SHOW", "Help", "bogus", "--version"}

\* str::to_lowercase on the arguments of CliArgs
to_lowercase(arg) ==
  IF arg = "SHOW" THEN "show" ELSE IF arg = "Help" THEN "help" ELSE arg

\* main's choice between the CLI and the GUI: `if !args.is_empty()`
MainMode(args) == IF args # <<>> THEN "cli" ELSE "gui"

\* the arm of handle_cli_command's match for a lower-cased first argument
CliEntry(cmd) ==
  IF cmd \in CliCmds THEN "find"
  ELSE IF cmd \in {"enable-autostart", "disable-autostart"} THEN "autostart"
  ELSE IF cmd \in UsageCmds THEN "usage"
  ELSE "unknown"

\* fault variant of UsageExit: the unknown-command arm returns like help
UsageExitZero(entry) == 0

\* the exit code after print_usage: Ok(()) for help, process::exit(1) for an
\* unknown command
UsageExit(entry) == IF entry = "unknown" THEN 1 ELSE 0

CliIdle == [pc |-> "none", cmd |-> "none", hwnd |-> 0, exit |-> -1, out |-> "none",
            posted |-> FALSE, spawned |-> 0, holderAtFind |-> FALSE,
            windowAtFind |-> FALSE]

\* the manager of a process that has not constructed one
NoMgr == [original_state |-> -1, enforced_state |-> -1]

\* the record of a monitor that has not called TaskbarCache.get
NoGet == [age |-> -1, enums |-> 0, kept |-> TRUE, ageAfter |-> -1]

\* p passed the instance guard and has not exited
Holder(p) == guardRes[p] = "created" /\ pc[p] # "exited"

----------------------------------------------------------------------------
Init ==
  /\ appbar \in AppBarStates
  /\ appbar0 = appbar
  /\ mutexHandles = {}
  /\ taskbars = InitTaskbars
  /\ visible = InitTaskbars
  /\ hwndCount = Cardinality(InitTaskbars)
  /\ shellOps = 0
  /\ ipcWindows = {}
  /\ msgq = [p \in Procs |-> <<>>]
  /\ nLaunched = 0
  /\ pc = [p \in Procs |-> "none"]
  /\ guardRes = [p \in Procs |-> "none"]
  /\ mgr = [p \in Procs |-> NoMgr]
  /\ should_hide = [p \in Procs |-> TRUE]
  /\ userq = [p \in Procs |-> <<>>]
  /\ menuq = [p \in Procs |-> <<>>]
  /\ clicks = 0
  /\ uiEv = [p \in Procs |-> "None"]
  /\ uiSrc = [p \in Procs |-> "none"]
  /\ uiList = [p \in Procs |-> <<>>]
  /\ exitReq = [p \in Procs |-> FALSE]
  /\ exitCalls = [p \in Procs |-> 0]
  /\ ipcPc = [p \in Procs |-> "none"]
  /\ classOk = [p \in Procs |-> TRUE]
  /\ proxy = [p \in Procs |-> FALSE]
  /\ quitPosted = [p \in Procs |-> FALSE]
  /\ monPc = [p \in Procs |-> "none"]
  /\ cache = [p \in Procs |-> TaskbarCacheNew]
  /\ monList = [p \in Procs |-> <<>>]
  /\ cli = [c \in Clis |-> CliIdle]
  /\ lastWrite = [p \in Procs |-> -1]
  /\ restoreCalls = [p \in Procs |-> 0]
  /\ touched = [p \in Procs |-> FALSE]
  /\ handled = [p \in Procs |-> <<>>]
  /\ exitPath = [p \in Procs |-> "none"]
  /\ lastGet = [p \in Procs |-> NoGet]
  /\ pending = [p \in Procs |-> {}]
  /\ missed = [p \in Procs |-> {}]
  /\ allShown = FALSE
  /\ occurred = [p \in Procs |-> <<>>]
  /\ forwarded = [p \in Procs |-> <<>>]
  /\ lastArrived = [p \in Procs |-> <<"none", "None">>]
  /\ lastUiCmd = [p \in Procs |-> "none"]

----------------------------------------------------------------------------
(* AppBar state and the TaskbarStateManager *)

\* write_taskbar_appbar_state(state), called by process p
write_taskbar_appbar_state(p, state) ==
  /\ appbar' = state
  /\ lastWrite' = [lastWrite EXCEPT ![p] = state]
  /\ touched' = [touched EXCEPT ![p] = TRUE]

\* TaskbarStateManager::enforce
enforce(p) ==
  /\ write_taskbar_appbar_state(p, mgr[p].enforced_state)
  /\ UNCHANGED restoreCalls

\* TaskbarStateManager::restore
restore(p) ==
  /\ write_taskbar_appbar_state(p, mgr[p].original_state)
  /\ restoreCalls' = [restoreCalls EXCEPT ![p] = @ + 1]

\* what the process releases when it ends: its mutex handle, its windows and
\* their queues, its threads
ProcessExit(p) ==
  /\ pc' = [pc EXCEPT ![p] = "exited"]
  /\ mutexHandles' = mutexHandles \ {p}
  /\ ipcWindows' = ipcWindows \ {p}
  /\ msgq' = [msgq EXCEPT ![p] = <<>>]
  /\ ipcPc' = [ipcPc EXCEPT ![p] = IF @ = "none" THEN "none" ELSE "done"]
  /\ monPc' = [monPc EXCEPT ![p] = IF @ = "none" THEN "none" ELSE "dead"]

----------------------------------------------------------------------------
(* main: launch, instance guard, startup *)

\* the binary is started with no arguments (by the user, by autostart)
Launch(p) ==
  /\ MainMode(<<>>) = "gui"
  /\ p = nLaunched + 1
  /\ pc[p] = "none"
  /\ nLaunched' = p
  /\ pc' = [pc EXCEPT ![p] = "guard"]
  /\ UNCHANGED <<osVars, guardRes, mgr, should_hide, userq, menuq, clicks, uiEv, uiSrc,
                 uiList, exitReq, exitCalls, ipcVars, monVars, cli, histVars>>
  /\ UNCHANGED traceVars

\* fault variant of GuardOutcome: GetLastError() is not consulted
GuardIgnoresExisting(created, existed) == IF created THEN "created" ELSE "failed"

\* check_single_instance's verdict: created is CreateMutexW's result being Ok,
\* existed is GetLastError() == ERROR_ALREADY_EXISTS
GuardOutcome(created, existed) ==
  IF ~created THEN "failed"
  ELSE IF existed THEN "exists"
  ELSE "created"

\* check_single_instance, up to the MessageBoxW call; None from a failed
\* CreateMutexW makes main return at once
check_single_instance(p) ==
  /\ pc[p] = "guard"
  /\ \E created \in BOOLEAN :
       LET res == GuardOutcome(created, mutexHandles # {}) IN
       /\ guardRes' = [guardRes EXCEPT ![p] = res]
       /\ IF res = "failed"
            THEN ProcessExit(p)
            ELSE /\ mutexHandles' = mutexHandles \cup {p}
                 /\ pc' = [pc EXCEPT ![p] = IF res = "exists" THEN "dialog" ELSE "setup"]
                 /\ UNCHANGED <<ipcWindows, msgq, ipcPc, monPc>>
  /\ UNCHANGED <<appbar, taskbars, visible, hwndCount, shellOps, nLaunched, mgr,
                 should_hide, userq, menuq, clicks, uiEv, uiSrc, uiList, exitReq,
                 exitCalls, classOk, proxy, quitPosted, cache, monList, cli, histVars>>
  /\ UNCHANGED traceVars

\* fault variant of DialogOk: main goes on after the dialog instead of
\* returning the error
DialogThenContinue(p) ==
  /\ pc[p] = "dialog"
  /\ pc' = [pc EXCEPT ![p] = "setup"]
  /\ UNCHANGED <<mutexHandles, ipcWindows, msgq, ipcPc, monPc>>
  /\ UNCHANGED <<appbar, taskbars, visible, hwndCount, shellOps, nLaunched, guardRes, mgr,
                 should_hide, userq, menuq, clicks, uiEv, uiSrc, uiList, exitReq,
                 exitCalls, classOk, proxy, quitPosted, cache, monList, cli, histVars>>
  /\ UNCHANGED traceVars

\* the warning dialog is dismissed: check_single_instance returns None and
\* main returns Err
DialogOk(p) ==
  /\ pc[p] = "dialog"
  /\ ProcessExit(p)
  /\ UNCHANGED <<appbar, taskbars, visible, hwndCount, shellOps, nLaunched, guardRes, mgr,
                 should_hide, userq, menuq, clicks, uiEv, uiSrc, uiList, exitReq,
                 exitCalls, classOk, proxy, quitPosted, cache, monList, cli, histVars>>
  /\ UNCHANGED traceVars

\* fault variant of Setup: main goes from the tray icon straight to
\* create_ipc_window
SetupSkipsEnforcement(p) ==
  /\ pc[p] = "setup"
  /\ \E ok \in BOOLEAN :
       IF ok
         THEN /\ pc' = [pc EXCEPT ![p] = "ipc"]
              /\ UNCHANGED <<mutexHandles, ipcWindows, msgq, ipcPc, monPc>>
         ELSE ProcessExit(p)
  /\ UNCHANGED <<appbar, taskbars, visible, hwndCount, shellOps, nLaunched, guardRes, mgr,
                 should_hide, userq, menuq, clicks, uiEv, uiSrc, uiList, exitReq,
                 exitCalls, classOk, proxy, quitPosted, cache, monList, cli, histVars>>
  /\ UNCHANGED traceVars

\* main, lines 458-475: event loop, tray menu and tray icon are built; each
\* `?` returns Err from main when the build fails
Setup(p) ==
  /\ pc[p] = "setup"
  /\ \E ok \in BOOLEAN :
       IF ok
         THEN /\ pc' = [pc EXCEPT ![p] = "mgr_new"]
              /\ UNCHANGED <<mutexHandles, ipcWindows, msgq, ipcPc, monPc>>
         ELSE ProcessExit(p)
  /\ UNCHANGED <<appbar, taskbars, visible, hwndCount, shellOps, nLaunched, guardRes, mgr,
                 should_hide, userq, menuq, clicks, uiEv, uiSrc, uiList, exitReq,
                 exitCalls, classOk, proxy, quitPosted, cache, monList, cli, histVars>>
  /\ UNCHANGED traceVars

\* TaskbarStateManager::new, the read of the AppBar state
MgrNew(p) ==
  /\ pc[p] = "mgr_new"
  /\ LET original_state == appbar
         enforced_state == BitOr(original_state, ABS_AUTOHIDE)
     IN /\ mgr' = [mgr EXCEPT ![p] = [original_state |-> original_state,
                                      enforced_state |-> enforced_state]]
        /\ pc' = [pc EXCEPT ![p] = IF enforced_state # original_state
                                     THEN "mgr_write" ELSE "enforce"]
  /\ touched' = [touched EXCEPT ![p] = TRUE]
  /\ UNCHANGED <<osVars, nLaunched, guardRes, should_hide, userq, menuq, clicks, uiEv,
                 uiSrc, uiList, exitReq, exitCalls, ipcVars, monVars, cli, appbar0,
                 lastWrite, restoreCalls, handled, exitPath, lastGet, pending, missed>>
  /\ UNCHANGED allShown
  /\ UNCHANGED traceVars

\* TaskbarStateManager::new, the write when the auto-hide bit was not set
MgrNewWrite(p) ==
  /\ pc[p] = "mgr_write"
  /\ write_taskbar_appbar_state(p, mgr[p].enforced_state)
  /\ pc' = [pc EXCEPT ![p] = "enforce"]
  /\ UNCHANGED <<mutexHandles, taskbars, visible, hwndCount, shellOps, ipcWindows, msgq,
                 nLaunched, guardRes, mgr, should_hide, userq, menuq, clicks, uiEv,
                 uiSrc, uiList, exitReq, exitCalls, ipcVars, monVars, cli, appbar0,
                 restoreCalls, handled, exitPath, lastGet, pending, missed>>
  /\ UNCHANGED allShown
  /\ UNCHANGED traceVars

\* main, line 479: taskbar_manager.enforce(); then set_taskbar_state(false)
StartupEnforce(p) ==
  /\ pc[p] = "enforce"
  /\ enforce(p)
  /\ uiEv' = [uiEv EXCEPT ![p] = "Startup"]
  /\ uiSrc' = [uiSrc EXCEPT ![p] = "startup"]
  /\ pc' = [pc EXCEPT ![p] = "enum"]
  /\ UNCHANGED <<mutexHandles, taskbars, visible, hwndCount, shellOps, ipcWindows, msgq,
                 nLaunched, guardRes, mgr, should_hide, userq, menuq, clicks,
                 uiList, exitReq, exitCalls, ipcVars, monVars, cli, appbar0,
                 handled, exitPath, lastGet, pending, missed>>
  /\ UNCHANGED allShown
  /\ UNCHANGED traceVars

----------------------------------------------------------------------------
(* The event handlers: the IPC match arms (lines 510-525), the tray-menu     *)
(* branches (lines 533-546) and startup's set_taskbar_state(false) share     *)
(* the steps store / write / enumerate / ShowWindow per handle.              *)

\* fault variant of StoredIntent: no handler clears the intent
StoredIntentAlwaysHide(ev) == TRUE

\* the value stored to should_hide for an event
StoredIntent(ev) == ev = "Hide"

\* fault variant of ShowArg: the Quit handlers pass false
ShowArgOnlyForShow(ev) == ev = "Show"

\* set_taskbar_state's argument: SW_SHOW for Show and Quit, SW_HIDE otherwise
ShowArg(ev) == ev \in {"Show", "Quit"}

\* what follows set_taskbar_state: elwt.exit() for Quit, then, after an IPC
\* event, menu_channel.try_recv() in the same callback; then the callback
\* returns.  After startup's set_taskbar_state main goes on to line 483.
AfterSetState(p) ==
  LET ex == exitReq[p] \/ uiEv[p] = "Quit"
      idle == IF ex THEN "exiting" ELSE "wait"
  IN
  IF uiSrc[p] = "startup"
    THEN /\ pc' = [pc EXCEPT ![p] = "ipc"]
         /\ uiEv' = [uiEv EXCEPT ![p] = "None"]
         /\ uiSrc' = [uiSrc EXCEPT ![p] = "none"]
         /\ UNCHANGED <<exitReq, handled, menuq>>
    ELSE /\ exitReq' = [exitReq EXCEPT ![p] = ex]
         /\ handled' = [handled EXCEPT ![p] = Append(@, <<uiSrc[p], uiEv[p]>>)]
         /\ IF uiSrc[p] = "ipc" /\ menuq[p] # <<>>
              THEN /\ uiEv' = [uiEv EXCEPT ![p] = Head(menuq[p])]
                   /\ uiSrc' = [uiSrc EXCEPT ![p] = "tray"]
                   /\ menuq' = [menuq EXCEPT ![p] = Tail(@)]
                   /\ pc' = [pc EXCEPT ![p] = "store"]
              ELSE /\ uiEv' = [uiEv EXCEPT ![p] = "None"]
                   /\ uiSrc' = [uiSrc EXCEPT ![p] = "none"]
                   /\ pc' = [pc EXCEPT ![p] = idle]
                   /\ UNCHANGED menuq

\* should_hide.store(..., SeqCst)
UiStore(p) ==
  /\ pc[p] = "store"
  /\ should_hide' = [should_hide EXCEPT ![p] = StoredIntent(uiEv[p])]
  /\ pc' = [pc EXCEPT ![p] = "write"]
  /\ pending' = [pending EXCEPT ![p] = IF StoredIntent(uiEv[p]) THEN @ ELSE {}]
  /\ allShown' = (allShown /\ uiEv[p] # "Show")
  /\ UNCHANGED <<osVars, nLaunched, guardRes, mgr, userq, menuq, clicks, uiEv, uiSrc,
                 uiList, exitReq, exitCalls, ipcVars, monVars, cli, appbar0, lastWrite,
                 restoreCalls, touched, handled, exitPath, lastGet, missed>>
  /\ UNCHANGED traceVars

\* fault variant of UiWrite: the Quit handlers leave the restore to Drop
UiWriteQuitSkipsRestore(p) ==
  /\ pc[p] = "write"
  /\ IF uiEv[p] = "Hide" THEN enforce(p)
     ELSE IF uiEv[p] = "Show" THEN restore(p)
     ELSE UNCHANGED <<appbar, lastWrite, touched, restoreCalls>>
  /\ pc' = [pc EXCEPT ![p] = "enum"]
  /\ UNCHANGED <<mutexHandles, taskbars, visible, hwndCount, shellOps, ipcWindows, msgq,
                 nLaunched, guardRes, mgr, should_hide, userq, menuq, clicks, uiEv,
                 uiSrc, uiList, exitReq, exitCalls, ipcVars, monVars, cli, appbar0,
                 handled, exitPath, lastGet, pending, missed, allShown>>
  /\ UNCHANGED traceVars

\* taskbar_manager_for_loop.enforce() for Hide, .restore() for Show and Quit
UiWrite(p) ==
  /\ pc[p] = "write"
  /\ IF uiEv[p] = "Hide" THEN enforce(p) ELSE restore(p)
  /\ pc' = [pc EXCEPT ![p] = "enum"]
  /\ UNCHANGED <<mutexHandles, taskbars, visible, hwndCount, shellOps, ipcWindows, msgq,
                 nLaunched, guardRes, mgr, should_hide, userq, menuq, clicks, uiEv,
                 uiSrc, uiList, exitReq, exitCalls, ipcVars, monVars, cli, appbar0,
                 handled, exitPath, lastGet, pending, missed>>
  /\ UNCHANGED allShown
  /\ UNCHANGED traceVars

\* set_taskbar_state_cached(show, None): find_all_explorer_taskbars()
UiEnum(p) ==
  /\ pc[p] = "enum"
  /\ LET hs == find_all_explorer_taskbars IN
     IF hs = <<>>
       THEN AfterSetState(p) /\ UNCHANGED uiList
       ELSE /\ uiList' = [uiList EXCEPT ![p] = hs]
            /\ pc' = [pc EXCEPT ![p] = "cmd"]
            /\ UNCHANGED <<exitReq, handled, menuq, uiEv, uiSrc>>
  /\ UNCHANGED <<osVars, nLaunched, guardRes, mgr, should_hide, userq, clicks,
                 exitCalls, ipcVars, monVars, cli, appbar0, lastWrite, restoreCalls,
                 touched, exitPath, lastGet, pending, missed>>
  /\ UNCHANGED allShown
  /\ UNCHANGED traceVars

\* set_taskbar_state_cached: one ShowWindow(hwnd, show_cmd) of the loop
UiCmd(p) ==
  /\ pc[p] = "cmd"
  /\ LET h == Head(uiList[p])
         rest == Tail(uiList[p])
     IN /\ visible' = ShowWindow(h, ShowArg(uiEv[p]))
        /\ uiList' = [uiList EXCEPT ![p] = rest]
        /\ pending' = [q \in Procs |-> IF ShowArg(uiEv[p]) THEN pending[q]
                                                           ELSE pending[q] \ {h}]
        /\ IF rest = <<>>
             THEN AfterSetState(p)
             ELSE UNCHANGED <<pc, exitReq, handled, menuq, uiEv, uiSrc>>
  /\ touched' = [touched EXCEPT ![p] = TRUE]
  /\ allShown' = (allShown \/ (visible' = taskbars /\ ~should_hide[p]))
  /\ lastUiCmd' = [lastUiCmd EXCEPT ![p] = IF ShowArg(uiEv[p]) THEN "show" ELSE "hide"]
  /\ UNCHANGED <<appbar, mutexHandles, taskbars, hwndCount, shellOps, ipcWindows, msgq,
                 nLaunched, guardRes, mgr, should_hide, userq, clicks, exitCalls,
                 ipcVars, monVars, cli, appbar0, lastWrite, restoreCalls, exitPath,
                 lastGet, missed, occurred, forwarded, lastArrived>>

----------------------------------------------------------------------------
(* main, lines 483-550 *)

\* create_ipc_window: the listener thread is spawned; lines 485-488 create
\* should_hide with the value true
create_ipc_window(p) ==
  /\ pc[p] = "ipc"
  /\ ipcPc' = [ipcPc EXCEPT ![p] = "register"]
  /\ should_hide' = [should_hide EXCEPT ![p] = TRUE]
  /\ pc' = [pc EXCEPT ![p] = "spawn_mon"]
  /\ UNCHANGED <<osVars, nLaunched, guardRes, mgr, userq, menuq, clicks, uiEv, uiSrc,
                 uiList, exitReq, exitCalls, classOk, proxy, quitPosted, monVars, cli,
                 histVars>>
  /\ UNCHANGED traceVars

\* the monitor thread is spawned (line 492) with a new TaskbarCache, and main
\* enters event_loop.run
SpawnMonitor(p) ==
  /\ pc[p] = "spawn_mon"
  /\ monPc' = [monPc EXCEPT ![p] = "load"]
  /\ cache' = [cache EXCEPT ![p] = TaskbarCacheNew]
  /\ pc' = [pc EXCEPT ![p] = "wait"]
  /\ UNCHANGED <<osVars, nLaunched, guardRes, mgr, should_hide, userq, menuq, clicks,
                 uiEv, uiSrc, uiList, exitReq, exitCalls, ipcVars, monList, cli,
                 histVars>>
  /\ UNCHANGED traceVars

\* fault variant of UiUserEvent: the newest user event is delivered first
UiUserEventNewestFirst(p) ==
  /\ pc[p] = "wait"
  /\ userq[p] # <<>>
  /\ uiEv' = [uiEv EXCEPT ![p] = userq[p][Len(userq[p])]]
  /\ uiSrc' = [uiSrc EXCEPT ![p] = "ipc"]
  /\ userq' = [userq EXCEPT ![p] = SubSeq(@, 1, Len(@) - 1)]
  /\ pc' = [pc EXCEPT ![p] = "store"]
  /\ UNCHANGED <<osVars, nLaunched, guardRes, mgr, should_hide, menuq, clicks,
                 uiList, exitReq, exitCalls, ipcVars, monVars, cli, histVars>>
  /\ UNCHANGED traceVars

\* the callback is invoked with Event::UserEvent(ipc_msg)
UiUserEvent(p) ==
  /\ pc[p] = "wait"
  /\ userq[p] # <<>>
  /\ uiEv' = [uiEv EXCEPT ![p] = Head(userq[p])]
  /\ uiSrc' = [uiSrc EXCEPT ![p] = "ipc"]
  /\ userq' = [userq EXCEPT ![p] = Tail(@)]
  /\ pc' = [pc EXCEPT ![p] = "store"]
  /\ UNCHANGED <<osVars, nLaunched, guardRes, mgr, should_hide, menuq, clicks,
                 uiList, exitReq, exitCalls, ipcVars, monVars, cli, histVars>>
  /\ UNCHANGED traceVars

\* the callback is invoked with any other event and menu_channel.try_recv()
\* yields a menu event (a callback that finds the channel empty does nothing)
UiMenuEvent(p) ==
  /\ pc[p] = "wait"
  /\ menuq[p] # <<>>
  /\ uiEv' = [uiEv EXCEPT ![p] = Head(menuq[p])]
  /\ uiSrc' = [uiSrc EXCEPT ![p] = "tray"]
  /\ menuq' = [menuq EXCEPT ![p] = Tail(@)]
  /\ pc' = [pc EXCEPT ![p] = "store"]
  /\ UNCHANGED <<osVars, nLaunched, guardRes, mgr, should_hide, userq, clicks,
                 uiList, exitReq, exitCalls, ipcVars, monVars, cli, histVars>>
  /\ UNCHANGED traceVars

\* after elwt.exit() the loop still invokes the callback (AboutToWait,
\* LoopExiting); each invocation runs menu_channel.try_recv()
UiExitCallback(p) ==
  /\ pc[p] = "exiting"
  /\ exitCalls[p] < MaxExitCallbacks
  /\ exitCalls' = [exitCalls EXCEPT ![p] = @ + 1]
  /\ IF menuq[p] # <<>>
       THEN /\ uiEv' = [uiEv EXCEPT ![p] = Head(menuq[p])]
            /\ uiSrc' = [uiSrc EXCEPT ![p] = "tray"]
            /\ menuq' = [menuq EXCEPT ![p] = Tail(@)]
            /\ pc' = [pc EXCEPT ![p] = "store"]
       ELSE UNCHANGED <<uiEv, uiSrc, menuq, pc>>
  /\ UNCHANGED <<osVars, nLaunched, guardRes, mgr, should_hide, userq, clicks,
                 uiList, exitReq, ipcVars, monVars, cli, histVars>>
  /\ UNCHANGED traceVars

\* event_loop.run returns Ok(()) once LoopExiting has been delivered
UiLoopReturn(p) ==
  /\ pc[p] = "exiting"
  /\ exitCalls[p] >= 1
  /\ pc' = [pc EXCEPT ![p] = "drop"]
  /\ exitPath' = [exitPath EXCEPT ![p] = "quit"]
  /\ UNCHANGED <<osVars, nLaunched, guardRes, mgr, should_hide, userq, menuq, clicks,
                 uiEv, uiSrc, uiList, exitReq, exitCalls, ipcVars, monVars, cli,
                 appbar0, lastWrite, restoreCalls, touched, handled, lastGet, pending,
                 missed>>
  /\ UNCHANGED allShown
  /\ UNCHANGED traceVars

\* event_loop.run returns Err and `?` returns it from main
RunError(p) ==
  /\ pc[p] = "wait"
  /\ pc' = [pc EXCEPT ![p] = "drop"]
  /\ exitPath' = [exitPath EXCEPT ![p] = "error"]
  /\ UNCHANGED <<osVars, nLaunched, guardRes, mgr, should_hide, userq, menuq, clicks,
                 uiEv, uiSrc, uiList, exitReq, exitCalls, ipcVars, monVars, cli,
                 appbar0, lastWrite, restoreCalls, touched, handled, lastGet, pending,
                 missed>>
  /\ UNCHANGED allShown
  /\ UNCHANGED traceVars

\* fault variant of Drop: the manager is dropped without a restore
DropWithoutRestore(p) == UNCHANGED <<appbar, lastWrite, touched, restoreCalls>>

\* main returns: the last Arc<TaskbarStateManager> is dropped; Drop::drop
Drop(p) == restore(p)

MainDrop(p) ==
  /\ pc[p] = "drop"
  /\ Drop(p)
  /\ pc' = [pc EXCEPT ![p] = "exit"]
  /\ UNCHANGED <<mutexHandles, taskbars, visible, hwndCount, shellOps, ipcWindows, msgq,
                 nLaunched, guardRes, mgr, should_hide, userq, menuq, clicks, uiEv,
                 uiSrc, uiList, exitReq, exitCalls, ipcVars, monVars, cli, appbar0,
                 handled, exitPath, lastGet, pending, missed>>
  /\ UNCHANGED allShown
  /\ UNCHANGED traceVars

\* the process ends
MainExit(p) ==
  /\ pc[p] = "exit"
  /\ ProcessExit(p)
  /\ UNCHANGED <<appbar, taskbars, visible, hwndCount, shellOps, nLaunched, guardRes, mgr,
                 should_hide, userq, menuq, clicks, uiEv, uiSrc, uiList, exitReq,
                 exitCalls, classOk, proxy, quitPosted, cache, monList, cli, histVars>>
  /\ UNCHANGED traceVars

\* the user picks an item of the tray menu
TrayClick(p, item) ==
  /\ pc[p] \in {"wait", "store", "write", "enum", "cmd"}
  /\ uiSrc[p] # "startup"
  /\ ~exitReq[p]
  /\ clicks < MaxClicks
  /\ clicks' = clicks + 1
  /\ menuq' = [menuq EXCEPT ![p] = Append(@, item)]
  /\ lastArrived' = [lastArrived EXCEPT ![p] = <<"tray", item>>]
  /\ UNCHANGED <<osVars, nLaunched, pc, guardRes, mgr, should_hide, userq, uiEv, uiSrc,
                 uiList, exitReq, exitCalls, ipcVars, monVars, cli, histVars,
                 occurred, forwarded, lastUiCmd>>

----------------------------------------------------------------------------
(* The IPC listener thread: create_ipc_window's closure and ipc_window_proc *)

\* RegisterClassW(&wc); its result is not looked at
IpcRegister(p) ==
  /\ ipcPc[p] = "register"
  /\ \E ok \in BOOLEAN : classOk' = [classOk EXCEPT ![p] = ok]
  /\ ipcPc' = [ipcPc EXCEPT ![p] = "store"]
  /\ UNCHANGED <<osVars, uiVars, proxy, quitPosted, monVars, cli, histVars>>
  /\ UNCHANGED traceVars

\* fault variant of IpcStoreProxy: the endpoint is not stored
IpcStoreProxySkipped(p) ==
  /\ ipcPc[p] = "store"
  /\ ipcPc' = [ipcPc EXCEPT ![p] = "create"]
  /\ UNCHANGED <<osVars, uiVars, classOk, proxy, quitPosted, monVars, cli, histVars>>
  /\ UNCHANGED traceVars

\* GLOBAL_EVENT_PROXY.lock() ... proxy.replace(event_loop_proxy)
IpcStoreProxy(p) ==
  /\ ipcPc[p] = "store"
  /\ proxy' = [proxy EXCEPT ![p] = TRUE]
  /\ ipcPc' = [ipcPc EXCEPT ![p] = "create"]
  /\ UNCHANGED <<osVars, uiVars, classOk, quitPosted, monVars, cli, histVars>>
  /\ UNCHANGED traceVars

\* fault variant of IpcCreateWindow: creating the window empties the cell
IpcCreateWindowTakesProxy(p) ==
  /\ ipcPc[p] = "create"
  /\ \E ok \in BOOLEAN :
       IF ok /\ classOk[p]
         THEN /\ ipcWindows' = ipcWindows \cup {p}
              /\ ipcPc' = [ipcPc EXCEPT ![p] = "pump"]
         ELSE /\ ipcPc' = [ipcPc EXCEPT ![p] = "done"]
              /\ UNCHANGED ipcWindows
  /\ proxy' = [proxy EXCEPT ![p] = FALSE]
  /\ UNCHANGED <<appbar, mutexHandles, taskbars, visible, hwndCount, shellOps, msgq,
                 uiVars, classOk, quitPosted, monVars, cli, histVars>>
  /\ UNCHANGED traceVars

\* CreateWindowExW(..., HWND_MESSAGE, ...); on Err the thread logs and returns
IpcCreateWindow(p) ==
  /\ ipcPc[p] = "create"
  /\ \E ok \in BOOLEAN :
       IF ok /\ classOk[p]
         THEN /\ ipcWindows' = ipcWindows \cup {p}
              /\ ipcPc' = [ipcPc EXCEPT ![p] = "pump"]
         ELSE /\ ipcPc' = [ipcPc EXCEPT ![p] = "done"]
              /\ UNCHANGED ipcWindows
  /\ UNCHANGED <<appbar, mutexHandles, taskbars, visible, hwndCount, shellOps, msgq,
                 uiVars, classOk, proxy, quitPosted, monVars, cli, histVars>>
  /\ UNCHANGED traceVars

\* one GetMessageW / DispatchMessageW round: ipc_window_proc on the oldest
\* posted message.  send_event fails once event_loop.run has returned.
ipc_window_proc(p) ==
  /\ ipcPc[p] = "pump"
  /\ msgq[p] # <<>>
  /\ LET ipc_message == IpcMessageOf(Head(msgq[p]))
         sent == ipc_message # "None" /\ proxy[p] /\ pc[p] \notin {"drop", "exit"}
     IN
       /\ quitPosted' = [quitPosted EXCEPT ![p] = @ \/ ipc_message = "Quit"]
       /\ userq' = [userq EXCEPT ![p] = IF sent THEN Append(@, ipc_message) ELSE @]
       /\ forwarded' = [forwarded EXCEPT ![p] =
                          IF sent THEN Append(@, ipc_message) ELSE @]
       /\ lastArrived' = [lastArrived EXCEPT ![p] =
                            IF sent THEN <<"ipc", ipc_message>> ELSE @]
  /\ msgq' = [msgq EXCEPT ![p] = Tail(@)]
  /\ UNCHANGED <<appbar, mutexHandles, taskbars, visible, hwndCount, shellOps, ipcWindows,
                 nLaunched, pc, guardRes, mgr, should_hide, menuq, clicks, uiEv, uiSrc,
                 uiList, exitReq, exitCalls, ipcPc, classOk, proxy, monVars, cli,
                 histVars, occurred, lastUiCmd>>

\* some other sender posts a message that is none of the three to the listener
\* window: ipc_window_proc's `_ => None` arm
PostOther(p, msg) ==
  /\ p \in ipcWindows
  /\ Cardinality({i \in DOMAIN occurred[p] : occurred[p][i][1] = "other"}) < MaxOther
  /\ msgq' = [msgq EXCEPT ![p] = Append(@, msg)]
  /\ occurred' = [occurred EXCEPT ![p] = Append(@, <<"other", msg>>)]
  /\ UNCHANGED <<appbar, mutexHandles, taskbars, visible, hwndCount, shellOps, ipcWindows,
                 uiVars, ipcVars, monVars, cli, histVars, forwarded, lastArrived, lastUiCmd>>

\* GetMessageW returns 0 for the WM_QUIT that PostQuitMessage made, which is
\* retrieved once no posted message is left; the thread ends and its window
\* with it
IpcPumpEnd(p) ==
  /\ ipcPc[p] = "pump"
  /\ quitPosted[p]
  /\ msgq[p] = <<>>
  /\ ipcPc' = [ipcPc EXCEPT ![p] = "done"]
  /\ ipcWindows' = ipcWindows \ {p}
  /\ UNCHANGED <<appbar, mutexHandles, taskbars, visible, hwndCount, shellOps, msgq,
                 uiVars, classOk, proxy, quitPosted, monVars, cli, histVars>>
  /\ UNCHANGED traceVars

----------------------------------------------------------------------------
(* The monitor thread, lines 492-502 *)

\* TaskbarCache.get as the monitor calls it, with what the call did
CacheGet(p) ==
  /\ cache' = [cache EXCEPT ![p] = get(cache[p])]
  /\ lastGet' = [lastGet EXCEPT ![p] =
                   [age |-> cache[p].age,
                    enums |-> IF should_refresh(cache[p]) THEN 1 ELSE 0,
                    kept |-> cache'[p].handles = cache[p].handles,
                    ageAfter |-> cache'[p].age]]

\* fault variant of AnyVisible: only the first handle is looked at
FirstVisible(hs) == hs # <<>> /\ hs[1] \in visible

\* is_taskbar_visible_cached's any(IsWindowVisible) over the handles; a
\* handle of a destroyed window is not visible
AnyVisible(hs) == \E i \in DOMAIN hs : hs[i] \in visible

\* should_hide_clone.load(SeqCst), the left operand of &&
MonLoad(p) ==
  /\ monPc[p] = "load"
  /\ monPc' = [monPc EXCEPT ![p] = IF should_hide[p] THEN "get1" ELSE "sleep"]
  /\ pending' = [pending EXCEPT ![p] = IF should_hide[p] THEN visible ELSE {}]
  /\ missed' = [missed EXCEPT ![p] = {}]
  /\ UNCHANGED <<osVars, uiVars, ipcVars, cache, monList, cli, appbar0, lastWrite,
                 restoreCalls, touched, handled, exitPath, lastGet>>
  /\ UNCHANGED allShown
  /\ UNCHANGED traceVars

\* is_taskbar_visible_cached: cache.get()
MonGet1(p) ==
  /\ monPc[p] = "get1"
  /\ CacheGet(p)
  /\ monPc' = [monPc EXCEPT ![p] = "vis"]
  /\ UNCHANGED <<osVars, uiVars, ipcVars, monList, cli, appbar0, lastWrite,
                 restoreCalls, touched, handled, exitPath, pending, missed>>
  /\ UNCHANGED allShown
  /\ UNCHANGED traceVars

\* is_taskbar_visible_cached: the IsWindowVisible calls
MonVisible(p) ==
  /\ monPc[p] = "vis"
  /\ IF AnyVisible(cache[p].handles)
       THEN /\ monPc' = [monPc EXCEPT ![p] = "get2"]
            /\ UNCHANGED missed
       ELSE /\ monPc' = [monPc EXCEPT ![p] = "sleep"]
            /\ missed' = [missed EXCEPT ![p] = pending[p]]
  /\ UNCHANGED <<osVars, uiVars, ipcVars, cache, monList, cli, appbar0, lastWrite,
                 restoreCalls, touched, handled, exitPath, lastGet, pending>>
  /\ UNCHANGED allShown
  /\ UNCHANGED traceVars

\* set_taskbar_state_cached(false, Some(&mut cache)): c.get().to_vec()
MonGet2(p) ==
  /\ monPc[p] = "get2"
  /\ CacheGet(p)
  /\ monList' = [monList EXCEPT ![p] = cache'[p].handles]
  /\ monPc' = [monPc EXCEPT ![p] = "hide"]
  /\ UNCHANGED <<osVars, uiVars, ipcVars, cli, appbar0, lastWrite,
                 restoreCalls, touched, handled, exitPath, pending, missed>>
  /\ UNCHANGED allShown
  /\ UNCHANGED traceVars

\* set_taskbar_state_cached: one ShowWindow(hwnd, SW_HIDE) of the loop; after
\* the last one the thread goes to sleep
MonHide(p) ==
  /\ monPc[p] = "hide"
  /\ IF monList[p] = <<>>
       THEN /\ monPc' = [monPc EXCEPT ![p] = "sleep"]
            /\ missed' = [missed EXCEPT ![p] = pending[p]]
            /\ UNCHANGED <<visible, monList, pending, touched>>
       ELSE LET h == Head(monList[p])
                rest == Tail(monList[p])
            IN /\ visible' = ShowWindow(h, FALSE)
               /\ monList' = [monList EXCEPT ![p] = rest]
               /\ pending' = [q \in Procs |-> pending[q] \ {h}]
               /\ touched' = [touched EXCEPT ![p] = TRUE]
               /\ monPc' = [monPc EXCEPT ![p] = IF rest = <<>> THEN "sleep" ELSE "hide"]
               /\ missed' = [missed EXCEPT ![p] =
                               IF rest = <<>> THEN pending[p] \ {h} ELSE @]
  /\ UNCHANGED <<appbar, mutexHandles, taskbars, hwndCount, shellOps, ipcWindows, msgq,
                 uiVars, ipcVars, cache, cli, appbar0, lastWrite, restoreCalls,
                 handled, exitPath, lastGet>>
  /\ UNCHANGED allShown
  /\ UNCHANGED traceVars

\* std::thread::sleep(TASKBAR_MONITOR_INTERVAL_MS): the cache ages
MonSleep(p) ==
  /\ monPc[p] = "sleep"
  /\ cache' = [cache EXCEPT ![p].age =
                 Min(@ + TASKBAR_MONITOR_INTERVAL_MS, NEW_CACHE_AGE_MS)]
  /\ monPc' = [monPc EXCEPT ![p] = "load"]
  /\ UNCHANGED <<osVars, uiVars, ipcVars, monList, cli, histVars>>
  /\ UNCHANGED traceVars

----------------------------------------------------------------------------
(* The command dispatcher, cli.rs *)

\* the binary is started with a command; CLI processes are numbered in the
\* order they start
CliRun(c, arg) ==
  /\ cli[c].pc = "none"
  /\ IF c = 1 THEN TRUE ELSE cli[c - 1].pc # "none"
  /\ MainMode(<<arg>>) = "cli"
  /\ LET cmd == to_lowercase(arg) IN
       /\ cmd = "start" => nLaunched < MaxProcs
       /\ cli' = [cli EXCEPT ![c].pc = CliEntry(cmd), ![c].cmd = cmd]
  /\ UNCHANGED <<osVars, uiVars, ipcVars, monVars, histVars>>
  /\ UNCHANGED traceVars

\* the help arm and the `_` arm of handle_cli_command: print_usage(), after
\* the "Unknown command" line in the `_` arm
print_usage(c) ==
  /\ cli[c].pc \in {"usage", "unknown"}
  /\ cli' = [cli EXCEPT ![c].pc = "done",
                        ![c].out = IF cli[c].pc = "unknown" THEN "unknown command, usage"
                                                            ELSE "usage",
                        ![c].exit = UsageExit(cli[c].pc)]
  /\ UNCHANGED <<osVars, uiVars, ipcVars, monVars, histVars>>
  /\ UNCHANGED traceVars

\* fault variants of WindowFound: the result of FindWindowW is not tested
WindowFoundAlways(hwnd) == TRUE

WindowFoundNever(hwnd) == FALSE

\* the match guard `Ok(hwnd) if !hwnd.0.is_null()` of send_command and of
\* is_thide_running
WindowFound(hwnd) == hwnd # 0

\* FindWindowW(class_name, null) in send_command and in is_thide_running, and
\* the branch taken on its result
FindWindowW(c) ==
  /\ cli[c].pc = "find"
  /\ \E found \in (IF ipcWindows = {} THEN {0} ELSE ipcWindows) :
       LET r == [cli[c] EXCEPT !.hwnd = found,
                               !.windowAtFind = ipcWindows # {},
                               !.holderAtFind = \E p \in Procs : Holder(p)]
       IN cli' = [cli EXCEPT ![c] =
            IF r.cmd = "start"
              THEN IF WindowFound(found)
                     THEN [r EXCEPT !.pc = "done", !.out = "already running", !.exit = 0]
                     ELSE [r EXCEPT !.pc = "spawn"]
              ELSE IF WindowFound(found)
                     THEN [r EXCEPT !.pc = "post"]
                     ELSE [r EXCEPT !.pc = "done", !.out = "not running", !.exit = 1]]
  /\ UNCHANGED <<osVars, uiVars, ipcVars, monVars, histVars>>
  /\ UNCHANGED traceVars

\* send_command: PostMessageW(hwnd, message, 0, 0), its result dropped, then
\* the success line
send_command(c) ==
  /\ cli[c].pc = "post"
  /\ msgq' = [p \in Procs |->
                IF p = cli[c].hwnd /\ p \in ipcWindows
                  THEN Append(msgq[p], CliMessageOf(cli[c].cmd)) ELSE msgq[p]]
  /\ cli' = [cli EXCEPT ![c].pc = "done", ![c].out = "success", ![c].exit = 0,
                        ![c].posted = TRUE]
  /\ occurred' = [p \in Procs |->
                    IF p = cli[c].hwnd /\ p \in ipcWindows
                      THEN Append(occurred[p], <<"ipc", cli[c].cmd>>) ELSE occurred[p]]
  /\ UNCHANGED <<appbar, mutexHandles, taskbars, visible, hwndCount, shellOps, ipcWindows,
                 uiVars, ipcVars, monVars, histVars, forwarded, lastArrived, lastUiCmd>>

\* start_gui: Command::new(exe_path).spawn()?
start_gui(c) ==
  /\ cli[c].pc = "spawn"
  /\ \E ok \in BOOLEAN :
       IF ok
         THEN /\ nLaunched < MaxProcs
              /\ nLaunched' = nLaunched + 1
              /\ pc' = [pc EXCEPT ![nLaunched + 1] = "guard"]
              /\ cli' = [cli EXCEPT ![c].pc = "done", ![c].out = "starting",
                                    ![c].exit = 0, ![c].spawned = nLaunched + 1]
         ELSE /\ cli' = [cli EXCEPT ![c].pc = "done", ![c].out = "error", ![c].exit = 1]
              /\ UNCHANGED <<nLaunched, pc>>
  /\ UNCHANGED <<osVars, guardRes, mgr, should_hide, userq, menuq, clicks, uiEv, uiSrc,
                 uiList, exitReq, exitCalls, ipcVars, monVars, histVars>>
  /\ UNCHANGED traceVars

----------------------------------------------------------------------------
(* The shell (explorer.exe), acting on its own *)

\* explorer shows a taskbar window again
ShellShow(h) ==
  /\ shellOps < MaxShellOps
  /\ h \in taskbars \ visible
  /\ shellOps' = shellOps + 1
  /\ visible' = visible \cup {h}
  /\ pending' = [q \in Procs |-> pending[q] \ {h}]
  /\ UNCHANGED <<appbar, mutexHandles, taskbars, hwndCount, ipcWindows, msgq, uiVars,
                 ipcVars, monVars, cli, appbar0, lastWrite, restoreCalls, touched,
                 handled, exitPath, lastGet, missed>>
  /\ UNCHANGED allShown
  /\ UNCHANGED traceVars

\* explorer restarts: its windows are destroyed and a new primary taskbar is
\* created, visible
ShellRestart ==
  /\ shellOps < MaxShellOps
  /\ shellOps' = shellOps + 1
  /\ hwndCount' = hwndCount + 1
  /\ taskbars' = {hwndCount + 1}
  /\ visible' = {hwndCount + 1}
  /\ pending' = [q \in Procs |-> {}]
  /\ UNCHANGED <<appbar, mutexHandles, ipcWindows, msgq, uiVars,
                 ipcVars, monVars, cli, appbar0, lastWrite, restoreCalls, touched,
                 handled, exitPath, lastGet, missed>>
  /\ UNCHANGED allShown
  /\ UNCHANGED traceVars

\* a monitor is attached: explorer creates one more secondary taskbar, visible
ShellNewTaskbar ==
  /\ shellOps < MaxShellOps
  /\ shellOps' = shellOps + 1
  /\ hwndCount' = hwndCount + 1
  /\ taskbars' = taskbars \cup {hwndCount + 1}
  /\ visible' = visible \cup {hwndCount + 1}
  /\ UNCHANGED <<appbar, mutexHandles, ipcWindows, msgq, uiVars,
                 ipcVars, monVars, cli, histVars>>
  /\ UNCHANGED traceVars

----------------------------------------------------------------------------
(* Specifications *)

\* main from the guard's success to the entry into event_loop.run
StartupStep(p) ==
  \/ Setup(p) \/ MgrNew(p) \/ MgrNewWrite(p) \/ StartupEnforce(p)
  \/ create_ipc_window(p) \/ SpawnMonitor(p)

\* the steps of one event handler
HandlerStep(p) == UiStore(p) \/ UiWrite(p) \/ UiEnum(p) \/ UiCmd(p)

\* the event loop after elwt.exit()
QuitStep(p) == UiExitCallback(p) \/ UiLoopReturn(p)

\* main returns and the process ends
ReturnStep(p) == RunError(p) \/ MainDrop(p) \/ MainExit(p)

ListenerStep(p) ==
  \/ IpcRegister(p) \/ IpcStoreProxy(p) \/ IpcCreateWindow(p)
  \/ ipc_window_proc(p) \/ IpcPumpEnd(p)

MonitorStep(p) ==
  \/ MonLoad(p) \/ MonGet1(p) \/ MonVisible(p) \/ MonGet2(p) \/ MonHide(p)
  \/ MonSleep(p)

ShellStep ==
  \/ \E h \in 1 .. hwndCount : ShellShow(h)
  \/ ShellRestart
  \/ ShellNewTaskbar

\* One instance from launch to exit: the UI thread and the listener thread,
\* driven by tray clicks and by show/hide/stop/quit commands.  The monitor
\* thread is spawned but not scheduled: it reads should_hide and writes only
\* the visibility of taskbar windows and its own cache.
Next ==
  \/ Launch(1)
  \/ check_single_instance(1)
  \/ StartupStep(1) \/ UiUserEvent(1) \/ UiMenuEvent(1) \/ HandlerStep(1)
  \/ QuitStep(1) \/ ReturnStep(1)
  \/ ListenerStep(1)
  \/ \E item \in {"Show", "Hide", "Quit"} : TrayClick(1, item)
  \/ \E c \in SendClis, cmd \in SendCmds : CliRun(c, cmd)
  \/ \E c \in SendClis : FindWindowW(c) \/ send_command(c)

Spec == Init /\ [][Next]_vars

\* One instance and its listener window, to which two CLI invocations and one
\* other sender post; the tray is left alone and the monitor is not scheduled.
NextIpc ==
  \/ Launch(1)
  \/ check_single_instance(1)
  \/ StartupStep(1) \/ UiUserEvent(1) \/ HandlerStep(1)
  \/ QuitStep(1) \/ ReturnStep(1)
  \/ ListenerStep(1)
  \/ \E msg \in OtherMsgs : PostOther(1, msg)
  \/ \E c \in Clis, cmd \in SendCmds : CliRun(c, cmd)
  \/ \E c \in Clis : FindWindowW(c) \/ send_command(c)

SpecIpc == Init /\ [][NextIpc]_vars

\* The binary started with no argument (one instance, which runs until
\* event_loop.run fails) and with a first argument that asks for the usage
\* text, is no command, or is show or hide.
NextCli ==
  \/ Launch(1)
  \/ check_single_instance(1)
  \/ StartupStep(1) \/ UiUserEvent(1) \/ HandlerStep(1)
  \/ ReturnStep(1)
  \/ IpcRegister(1) \/ IpcStoreProxy(1) \/ IpcCreateWindow(1) \/ ipc_window_proc(1)
  \/ \E c \in Clis, arg \in CliArgs \ {"start", "stop", "quit"} : CliRun(c, arg)
  \/ \E c \in Clis : print_usage(c) \/ FindWindowW(c) \/ send_command(c)

SpecCli == Init /\ [][NextCli]_vars

\* One instance with its monitor thread scheduled, ended by `thide quit` or by
\* the tray's Quit item (or by a failing event_loop.run); the shell is left
\* alone.
NextQuit ==
  \/ Launch(1)
  \/ check_single_instance(1)
  \/ StartupStep(1) \/ UiUserEvent(1) \/ UiMenuEvent(1) \/ HandlerStep(1)
  \/ QuitStep(1) \/ ReturnStep(1)
  \/ ListenerStep(1)
  \/ MonitorStep(1)
  \/ TrayClick(1, "Quit")
  \/ CliRun(1, "quit") \/ FindWindowW(1) \/ send_command(1)

SpecQuit == Init /\ [][NextQuit]_vars

\* Several launches of the binary, by the user and by `thide start`, and the
\* quit command: the instance guard and the liveness test of start_gui.
NextGuard ==
  \/ \E p \in GuardProcs : Launch(p)
  \/ \E p \in GuardProcs : check_single_instance(p) \/ DialogOk(p)
  \/ \E p \in GuardProcs : StartupStep(p) \/ UiUserEvent(p) \/ HandlerStep(p)
  \/ \E p \in GuardProcs : QuitStep(p) \/ ReturnStep(p)
  \/ \E p \in GuardProcs : ListenerStep(p)
  \/ \E c \in Clis, cmd \in {"start", "quit"} : CliRun(c, cmd)
  \/ \E c \in Clis : FindWindowW(c) \/ send_command(c) \/ start_gui(c)

SpecGuard == Init /\ [][NextGuard]_vars

\* The user launches the binary several times; an instance that got the
\* singleton starts up and ends when event_loop.run fails, a rejected one ends
\* when its dialog is dismissed.  Listener and monitor threads are not
\* scheduled and no CLI process runs.
NextRelaunch ==
  \/ \E p \in Procs : Launch(p)
  \/ \E p \in Procs : check_single_instance(p) \/ DialogOk(p)
  \/ \E p \in Procs : StartupStep(p) \/ UiEnum(p) \/ UiCmd(p) \/ ReturnStep(p)

SpecRelaunch == Init /\ [][NextRelaunch]_vars

\* One instance with its monitor thread scheduled, the shell acting on the
\* taskbar windows, and one show or hide command.
NextMonitor ==
  \/ Launch(1)
  \/ check_single_instance(1)
  \/ StartupStep(1) \/ UiUserEvent(1) \/ HandlerStep(1) \/ ReturnStep(1)
  \/ IpcRegister(1) \/ IpcStoreProxy(1) \/ IpcCreateWindow(1) \/ ipc_window_proc(1)
  \/ MonitorStep(1)
  \/ \E cmd \in {"show", "hide"} : CliRun(1, cmd)
  \/ FindWindowW(1) \/ send_command(1)
  \/ ShellStep

SpecMonitor == Init /\ [][NextMonitor]_vars

----------------------------------------------------------------------------
(* Properties *)

\* main has returned in process p
Returned(p) == pc[p] \in {"exit", "exited"}

\* the events p has handled, in handling order, without their sources
HandledEvents(p) == [i \in DOMAIN handled[p] |-> handled[p][i][2]]

\* C1: whenever the TaskbarStateManager was constructed and main has returned
\* (after Quit from the tray, Quit over IPC or an event-loop error, and after
\* any Show/Hide events), the last value the process wrote to the AppBar state
\* is original_state; with no other writer the AppBar state is then what it
\* was before the program ran.
C1_LastWriteIsOriginal ==
  \A p \in Procs :
    (Returned(p) /\ mgr[p] # NoMgr) =>
      /\ lastWrite[p] = mgr[p].original_state
      /\ mgr[p].original_state = appbar0
      /\ appbar = appbar0

\* C1 witness: the event loop returned an error after a Hide was the last
\* event handled, so that only Drop restores; the auto-hide bit was off before
C1_Witness ==
  /\ pc[1] = "exited" /\ exitPath[1] = "error"
  /\ mgr[1] # NoMgr /\ mgr[1].original_state # mgr[1].enforced_state
  /\ Len(handled[1]) >= 2
  /\ handled[1][Len(handled[1])][2] = "Hide"
  /\ "Show" \in Range(HandledEvents(1))
  /\ appbar = appbar0

\* C2: a process whose guard was rejected (the mutex existed, or CreateMutexW
\* failed) never reads or writes the AppBar state, never calls enforce or
\* restore, never shows or hides a taskbar window, and never creates the IPC
\* window, its listener thread or the monitor thread; it is in the warning
\* dialog or has exited.
C2_RejectedTouchesNothing ==
  \A p \in Procs :
    guardRes[p] \in {"exists", "failed"} =>
      /\ ~touched[p] /\ lastWrite[p] = -1 /\ restoreCalls[p] = 0
      /\ mgr[p] = NoMgr
      /\ ipcPc[p] = "none" /\ p \notin ipcWindows
      /\ monPc[p] = "none"
      /\ pc[p] \in {"dialog", "exited"}

\* C2 witness: a second launch was rejected and has exited while the first
\* instance sits in its event loop with the taskbars hidden
C2_Witness ==
  \E p, q \in Procs :
    /\ guardRes[q] = "exists" /\ pc[q] = "exited"
    /\ guardRes[p] = "created" /\ pc[p] = "wait"
    /\ visible = {}

\* C3: under every interleaving of launches (direct, and spawned by start
\* commands that both passed the liveness check) at most one process at a time
\* has obtained Some(handle) from check_single_instance, and so at most one
\* holds a TaskbarStateManager or runs a monitor thread.
C3_AtMostOneHolder ==
  /\ Cardinality({p \in Procs : Holder(p)}) <= 1
  /\ Cardinality({p \in Procs : mgr[p] # NoMgr /\ pc[p] # "exited"}) <= 1
  /\ Cardinality({p \in Procs : monPc[p] \notin {"none", "dead"}}) <= 1
  /\ \A p \in Procs : (mgr[p] # NoMgr \/ monPc[p] # "none") => guardRes[p] = "created"

\* C3 witness: two start commands each spawned a process; one of the two
\* passed the guard and built its manager, the other was rejected
C3_Witness ==
  /\ \A c \in Clis : cli[c].spawned # 0
  /\ \E p, q \in Procs :
       /\ Holder(p) /\ mgr[p] # NoMgr
       /\ guardRes[q] = "exists"

\* C4: when the event loop is between callbacks and the events handled so far
\* are Show and Hide events (from the tray menu, over IPC, or both), should_hide
\* is true exactly if the last event handled was Hide; it is true when no
\* event has been handled.
C4_IntentIsLastEvent ==
  \A p \in Procs :
    LET evs == HandledEvents(p) IN
    (pc[p] = "wait" /\ Range(evs) \subseteq {"Show", "Hide"}) =>
      should_hide[p] = (IF evs = <<>> THEN TRUE ELSE evs[Len(evs)] = "Hide")

\* C4 witness: events from both sources have been handled, a Hide over IPC
\* and then a Show from the tray, and the intent is false
C4_Witness ==
  /\ pc[1] = "wait"
  /\ handled[1] = << <<"ipc", "Hide">>, <<"tray", "Show">> >>
  /\ ~should_hide[1]

\* C5: with the instance running hidden, a CLI `show` leads to a state in
\* which every taskbar is visible and should_hide is false: once its Show has
\* been handled and the monitor has finished the poll it was in, the run has
\* passed through such a state (the shell not having acted).
C5_ShowReachesAllVisible ==
  ( /\ cli[1].cmd = "show" /\ cli[1].posted
    /\ handled[1] = << <<"ipc", "Show">> >>
    /\ pc[1] = "wait" /\ monPc[1] = "sleep"
    /\ shellOps = 0 )
  => allShown

\* C6 as stated: while should_hide stays true, a poll of the monitor leaves
\* visible no taskbar window that was visible when the poll began, whether an
\* existing window shown again or a window the shell created.
C6_PollHidesEveryVisible == \A p \in Procs : missed[p] = {}

\* C6 amended: a completed poll leaves visible only windows that are not in
\* the cached handle set, and a poll that refreshed the cache leaves none: a
\* window created since the last refresh is hidden by the first poll after the
\* cache has expired.
C6_PollMissesOnlyUncached ==
  \A p \in Procs :
    /\ missed[p] \cap Range(cache[p].handles) = {}
    /\ (monPc[p] = "sleep" /\ cache[p].age = 0) => missed[p] = {}

\* C6 witness: the shell showed an existing taskbar window again and, no
\* command having been sent, the monitor's poll hid it
C6_Witness ==
  /\ shellOps = 1 /\ taskbars = InitTaskbars
  /\ cli[1].pc = "none"
  /\ should_hide[1] /\ monPc[1] = "sleep"
  /\ visible = {} /\ missed[1] = {}

\* the Quit events p has handled
NumQuit(p) == Cardinality({i \in DOMAIN handled[p] : handled[p][i][2] = "Quit"})

\* C7 as stated: in a run with no Show event that ended through a Quit event,
\* restore() was invoked exactly once between startup and process exit.
C7_RestoreExactlyOnce ==
  \A p \in Procs :
    (pc[p] = "exited" /\ exitPath[p] = "quit" /\ "Show" \notin Range(HandledEvents(p)))
      => restoreCalls[p] = 1

\* C7 amended: in such a run restore() was invoked once by each Quit handler
\* that ran and once more by Drop when main returned: at least twice.
C7_RestorePerQuitPlusDrop ==
  \A p \in Procs :
    (pc[p] = "exited" /\ exitPath[p] = "quit" /\ "Show" \notin Range(HandledEvents(p)))
      => /\ NumQuit(p) >= 1
         /\ restoreCalls[p] = NumQuit(p) + 1

\* C7 witness: a Hide over IPC and then Quit from the tray were handled, the
\* process has exited and restore() ran twice
C7_Witness ==
  /\ pc[1] = "exited" /\ exitPath[1] = "quit"
  /\ handled[1] = << <<"ipc", "Hide">>, <<"tray", "Quit">> >>
  /\ restoreCalls[1] = 2

\* c has made its FindWindowW call
PastFind(c) == cli[c].pc \notin {"none", "find"}

\* C8: a show, hide, stop or quit command whose FindWindowW ran while no
\* THideIPCWindow window existed has posted no message and spawned no process,
\* printed the 'not running' error and exited with code 1.
C8_SendWithoutWindow ==
  \A c \in Clis :
    (cli[c].cmd \in SendCmds /\ PastFind(c) /\ ~cli[c].windowAtFind) =>
      /\ cli[c].pc = "done"
      /\ cli[c].out = "not running" /\ cli[c].exit = 1
      /\ ~cli[c].posted /\ cli[c].spawned = 0

\* C8 witness: a command got the 'not running' error while an instance was in
\* its event loop, its IPC window never having been created
C8_Witness ==
  \E c \in Clis :
    /\ cli[c].cmd \in SendCmds /\ cli[c].pc = "done" /\ ~cli[c].windowAtFind
    /\ cli[c].out = "not running" /\ cli[c].exit = 1
    /\ cli[c].holderAtFind
    /\ pc[1] = "wait" /\ ipcPc[1] = "done" /\ ~quitPosted[1]

C10_CacheGet ==
  \A p \in Procs :
    lastGet[p] # NoGet =>
      /\ lastGet[p].age < TASKBAR_CACHE_REFRESH_MS =>
           /\ lastGet[p].enums = 0 /\ lastGet[p].kept
           /\ lastGet[p].ageAfter = lastGet[p].age
      /\ lastGet[p].age > TASKBAR_CACHE_REFRESH_MS =>
           /\ lastGet[p].enums = 1 /\ lastGet[p].ageAfter = 0
      /\ monPc[p] = "hide" => (lastGet[p].enums = 0 /\ lastGet[p].kept)

\* C10 witness: the cache aged past the window poll by poll, and the get that
\* followed enumerated once and picked up a taskbar window the shell had made
C10_Witness ==
  /\ lastGet[1].age = TASKBAR_CACHE_REFRESH_MS + TASKBAR_MONITOR_INTERVAL_MS
  /\ lastGet[1].enums = 1 /\ lastGet[1].ageAfter = 0
  /\ ~lastGet[1].kept
  /\ shellOps = 1 /\ cache[1].handles = SortedSeq(taskbars)

----------------------------------------------------------------------------
\* the event handle_cli_command's table and ipc_window_proc's table agree on
\* for a command
CommandEvent(cmd) ==
  IF cmd = "show" THEN "Show" ELSE IF cmd = "hide" THEN "Hide" ELSE "Quit"

\* the commands posted to p's listener window, oldest first
IpcCmds(p) ==
  LET t == SelectSeq(occurred[p], LAMBDA e : e[1] = "ipc")
  IN [i \in DOMAIN t |-> t[i][2]]

\* C11: the CLI and the listener agree on the protocol: the three message
\* identifiers are pairwise distinct, the k-th event the listener forwards
\* is Show for show, Hide for hide and Quit for stop and for quit, according to
\* the k-th command posted to its window, and a message with any other
\* identifier forwards no event.
C11_ProtocolAgreement ==
  /\ Cardinality({WM_THIDE_SHOW, WM_THIDE_HIDE, WM_THIDE_QUIT}) = 3
  /\ \A p \in Procs :
       /\ Len(forwarded[p]) <= Len(IpcCmds(p))
       /\ \A i \in DOMAIN forwarded[p] : forwarded[p][i] = CommandEvent(IpcCmds(p)[i])

\* C11 witness: hide, another message and stop were posted in this order and
\* all three were dispatched; Hide and Quit were forwarded.
C11_Witness ==
  \E p \in Procs, msg \in OtherMsgs :
    /\ occurred[p] = << <<"ipc", "hide">>, <<"other", msg>>, <<"ipc", "stop">> >>
    /\ msgq[p] = <<>>
    /\ forwarded[p] = <<"Hide", "Quit">>

----------------------------------------------------------------------------
\* a CLI process that has finished
CliDone(c) == cli[c].pc = "done"

\* C12 (as stated): `help` and no arguments print the usage text and exit 0
\* without acquiring the singleton, touching the taskbar or contacting an
\* instance; an unrecognised first argument prints an error and the usage
\* text and exits 1, likewise without effect.  Every GUI process of the
\* model is the binary started with no arguments.
C12_HelpOrNoArgsOnlyPrint ==
  /\ \A c \in Clis : CliDone(c) /\ CliEntry(cli[c].cmd) = "usage" =>
        cli[c].out = "usage" /\ cli[c].exit = 0 /\ ~cli[c].posted
  /\ \A c \in Clis : CliDone(c) /\ CliEntry(cli[c].cmd) = "unknown" =>
        cli[c].out = "unknown command, usage" /\ cli[c].exit = 1 /\ ~cli[c].posted
  /\ \A p \in Procs : p \notin mutexHandles /\ ~touched[p] /\ p \notin ipcWindows

\* C12 (amended): help, --help and -h in any letter case print the usage text
\* and exit 0; a first argument that is no command prints an error and the
\* usage text and exits 1; no step of either changes anything outside the CLI
\* process.  The binary started with no arguments does not print the usage
\* text: it enters the GUI path, beginning with the instance guard.
C12_UsageOnlyWithArgument ==
  /\ [](\A c \in Clis : CliDone(c) /\ CliEntry(cli[c].cmd) = "usage" =>
          cli[c].out = "usage" /\ cli[c].exit = 0 /\ ~cli[c].posted)
  /\ [](\A c \in Clis : CliDone(c) /\ CliEntry(cli[c].cmd) = "unknown" =>
          cli[c].out = "unknown command, usage" /\ cli[c].exit = 1 /\ ~cli[c].posted)
  /\ [][\A c \in Clis :
          cli'[c] # cli[c] /\ CliEntry(cli'[c].cmd) \in {"usage", "unknown"} =>
            UNCHANGED <<osVars, uiVars, ipcVars, monVars, histVars, traceVars>>]_vars
  /\ [][\A p \in Procs : pc[p] = "none" /\ pc'[p] # "none" => pc'[p] = "guard"]_vars

\* C12 witness: `Help` printed the usage text and exited 0, `bogus` was
\* refused with exit code 1, and the binary started with no argument holds the
\* singleton and has hidden the taskbars.
C12_Witness ==
  /\ CliDone(1) /\ cli[1].cmd = "help" /\ cli[1].exit = 0
  /\ CliDone(2) /\ cli[2].cmd = "bogus" /\ cli[2].exit = 1
  /\ 1 \in mutexHandles /\ pc[1] = "wait" /\ visible = {}

----------------------------------------------------------------------------
\* p's listener thread has ended because CreateWindowExW failed, and p still
\* runs
ListenerFailed(p) ==
  ipcPc[p] = "done" /\ ~quitPosted[p] /\ pc[p] \notin {"none", "exited"}

\* C13 (as stated): a listener that failed to initialise has changed no state
\* of the process, in particular it has not stored the event-channel endpoint.
C13_FailedListenerStoredNothing ==
  \A p \in Procs : ListenerFailed(p) => ~proxy[p]

\* C13 (amended): a listener whose window could not be created (RegisterClassW
\* or CreateWindowExW failed) has stored the event-channel endpoint before it
\* gave up, and that is all it did: it has no window, it forwarded nothing, and
\* the step in which it gives up changes nothing else.  The instance keeps
\* running: until an event is handled the intent is true, the AppBar state is
\* the enforced one and no taskbar is visible.  Every show/hide/stop/quit
\* command run meanwhile reports "not running" and exits 1.
C13_FailedListenerStoredOnlyProxy ==
  /\ [](\A p \in Procs : ListenerFailed(p) =>
          /\ proxy[p] /\ p \notin ipcWindows /\ msgq[p] = <<>> /\ forwarded[p] = <<>>
          /\ pc[p] = "wait" /\ handled[p] = <<>> =>
                should_hide[p] /\ appbar = mgr[p].enforced_state /\ visible = {}
          /\ \A c \in Clis : CliDone(c) /\ cli[c].cmd \in SendCmds =>
                cli[c].out = "not running" /\ cli[c].exit = 1 /\ ~cli[c].posted)
  /\ [][\A p \in Procs : ipcPc[p] = "create" /\ ipcPc'[p] = "done" /\ pc'[p] = pc[p] =>
          UNCHANGED <<osVars, uiVars, classOk, proxy, quitPosted, monVars, cli,
                      histVars, traceVars>>]_vars

\* C13 witness: RegisterClassW failed, the listener gave up, the instance
\* waits for events with the taskbars hidden, and a command run while the
\* instance held the singleton was answered "not running".
C13_Witness ==
  \E p \in Procs, c \in Clis :
    /\ ListenerFailed(p) /\ ~classOk[p] /\ pc[p] = "wait" /\ visible = {}
    /\ CliDone(c) /\ cli[c].holderAtFind /\ cli[c].exit = 1

----------------------------------------------------------------------------
\* C14: once a Quit has been handled and the process has exited, every taskbar
\* window that existed when the Quit was handled is visible, however the
\* monitor thread was interleaved with the Quit handler.  (The shell creates
\* and destroys no taskbar in SpecQuit, so the windows of that moment are
\* `taskbars`.)
C14_QuitLeavesAllVisible ==
  \A p \in Procs : pc[p] = "exited" /\ exitPath[p] = "quit" => visible = taskbars

----------------------------------------------------------------------------
\* C15: whenever a hide command of the monitor takes effect (a ShowWindow of
\* its loop turns a visible taskbar invisible), VisibilityIntent is true at that
\* moment; so after a fully handled Show the program hides no taskbar until
\* the next Hide.
C15_MonitorHidesOnlyWithIntent ==
  [][\A p \in Procs :
       monPc[p] = "hide" /\ monList'[p] # monList[p] /\ visible' # visible =>
         should_hide[p]]_vars

----------------------------------------------------------------------------
\* C16: quitting is terminal: once a Quit from either source has been handled,
\* no Show and no Hide is handled after it, whether the later event was pending
\* in the tray channel during the callback of an IPC Quit or is delivered while
\* the loop is exiting.
C16_NothingHandledAfterQuit ==
  \A p \in Procs : \A i, j \in DOMAIN handled[p] :
    i < j /\ handled[p][i][2] = "Quit" => handled[p][j][2] = "Quit"

----------------------------------------------------------------------------
\* p waits and every event that reached its main thread has been handled
Quiescent(p) == pc[p] = "wait" /\ userq[p] = <<>> /\ menuq[p] = <<>>

\* C17: across the two sources the most recent event wins: once a tray click
\* and an IPC message that were both pending have been handled, the intent is
\* that of the one that arrived later.
C17_LatestArrivalWins ==
  \A p \in Procs : Quiescent(p) /\ lastArrived[p][1] # "none" =>
    should_hide[p] = StoredIntent(lastArrived[p][2])

----------------------------------------------------------------------------
\* the events of the commands posted to p's listener window, oldest first
PostedEvents(p) == [i \in DOMAIN IpcCmds(p) |-> CommandEvent(IpcCmds(p)[i])]

\* the IPC events p's main loop has handled, oldest first
HandledIpc(p) ==
  LET t == SelectSeq(handled[p], LAMBDA e : e[1] = "ipc")
  IN [i \in DOMAIN t |-> t[i][2]]

\* C18: the IPC messages posted to the listener window of a running instance
\* are applied by the main loop one at a time, in posting order, each exactly
\* once: the handled IPC events are always a prefix of the posted ones, only
\* the last handled one can be a Quit, and when the instance waits with nothing
\* in flight every posted message has been handled.  So up to and including
\* the first Quit nothing is lost, duplicated or reordered.
C18_IpcFifoExactlyOnce ==
  \A p \in Procs :
    /\ Len(HandledIpc(p)) <= Len(PostedEvents(p))
    /\ \A i \in DOMAIN HandledIpc(p) :
         /\ HandledIpc(p)[i] = PostedEvents(p)[i]
         /\ i < Len(HandledIpc(p)) => HandledIpc(p)[i] # "Quit"
    /\ pc[p] = "wait" /\ msgq[p] = <<>> /\ userq[p] = <<>> =>
         HandledIpc(p) = PostedEvents(p)

\* C18 witness: hide and then show were posted, both were in the user-event
\* queue at once, and both have been handled, in this order.
C18_Witness ==
  \E p \in Procs :
    /\ IpcCmds(p) = <<"hide", "show">>
    /\ handled[p] = << <<"ipc", "Hide">>, <<"ipc", "Show">> >>
    /\ pc[p] = "wait"
    /\ \A c \in Clis : cli[c].windowAtFind /\ CliDone(c)

----------------------------------------------------------------------------
\* p's event loop runs and no handler of it is executing
BetweenHandlers(p) == pc[p] \in {"wait", "exiting"}

\* C19: whenever no handler is executing after startup, the intent agrees with
\* what the main thread did last: with should_hide true its last AppBar write
\* was enforced_state and its last taskbar command was a hide; with
\* should_hide false its last AppBar write was original_state and its last
\* taskbar command was a show.
C19_IntentMatchesLastCommands ==
  \A p \in Procs : BetweenHandlers(p) =>
    IF should_hide[p]
      THEN lastWrite[p] = mgr[p].enforced_state /\ lastUiCmd[p] = "hide"
      ELSE lastWrite[p] = mgr[p].original_state /\ lastUiCmd[p] = "show"

\* C19 witness: auto-hide was off at the start, a Hide and then a Show have
\* been handled, and the instance waits with the original state written back
\* and a show as its last command.
C19_Witness ==
  \E p \in Procs :
    /\ pc[p] = "wait" /\ HandledEvents(p) = <<"Hide", "Show">>
    /\ mgr[p].original_state # mgr[p].enforced_state
    /\ ~should_hide[p] /\ lastWrite[p] = mgr[p].original_state /\ lastUiCmd[p] = "show"

----------------------------------------------------------------------------
\* C20: whenever no process that passed the guard is still running, a newly
\* launched GUI instance acquires the singleton: its check_single_instance
\* does not find the mutex existing, whatever rejected processes are around,
\* one still in its warning dialog included.  (A CreateMutexW that fails
\* outright is left aside.)
C20_AcquiresWhenNoHolder ==
  [][\A p \in Procs :
       pc[p] = "guard" /\ pc'[p] # "guard" /\ ~(\E q \in Procs : Holder(q)) =>
         guardRes'[p] # "exists"]_vars

----------------------------------------------------------------------------
\* C21 (as stated): a cached read returns the stored handles without
\* enumerating only at an age strictly below the 5000 ms threshold; at every
\* age from the threshold on, and on the first read of a new cache, it
\* enumerates before returning.
C21_RefreshFromThreshold ==
  \A p \in Procs :
    lastGet[p] # NoGet =>
      /\ lastGet[p].age < TASKBAR_CACHE_REFRESH_MS =>
           lastGet[p].enums = 0 /\ lastGet[p].ageAfter = lastGet[p].age
      /\ lastGet[p].age >= TASKBAR_CACHE_REFRESH_MS =>
           lastGet[p].enums = 1 /\ lastGet[p].ageAfter = 0

\* C21 (amended): a cached read returns the stored handles without enumerating
\* at every age up to and including the 5000 ms threshold; only at an age
\* strictly above it, which is also the age of a new cache at its first read,
\* does it enumerate and restart the age.
C21_RefreshAboveThreshold ==
  /\ should_refresh(TaskbarCacheNew)
  /\ \A p \in Procs :
       lastGet[p] # NoGet =>
         /\ lastGet[p].age <= TASKBAR_CACHE_REFRESH_MS =>
              /\ lastGet[p].enums = 0 /\ lastGet[p].kept
              /\ lastGet[p].ageAfter = lastGet[p].age
         /\ lastGet[p].age > TASKBAR_CACHE_REFRESH_MS =>
              lastGet[p].enums = 1 /\ lastGet[p].ageAfter = 0
         /\ lastGet[p].age = NEW_CACHE_AGE_MS =>
              lastGet[p].enums = 1 /\ lastGet[p].ageAfter = 0

\* C21 witness: a read made exactly 5000 ms after the last refresh returned
\* the stored handles, which lack a taskbar window the shell has made since.
C21_Witness ==
  \E p \in Procs :
    /\ lastGet[p].age = TASKBAR_CACHE_REFRESH_MS
    /\ lastGet[p].enums = 0 /\ lastGet[p].ageAfter = TASKBAR_CACHE_REFRESH_MS
    /\ cache[p].handles # SortedSeq(taskbars)

----------------------------------------------------------------------------
\* the step is p's window procedure receiving a message of the protocol
ReceivesReserved(p) ==
  /\ ipcPc[p] = "pump" /\ ipcPc'[p] = "pump" /\ pc'[p] = pc[p]
  /\ msgq[p] # <<>> /\ msgq'[p] = Tail(msgq[p])
  /\ IpcMessageOf(Head(msgq[p])) # "None"

\* C22: the event-channel endpoint is written to GLOBAL_EVENT_PROXY exactly
\* once, before the listener window is created, and is never cleared; so the
\* cell is filled whenever the window exists, every message of the protocol
\* the window procedure receives finds it filled and is passed to send_event,
\* and, unless event_loop.run has already returned, reaches the main loop.
C22_ProxyWrittenOnceBeforeWindow ==
  /\ [](\A p \in Procs : p \in ipcWindows => proxy[p])
  /\ [][\A p \in Procs :
          /\ proxy[p] => proxy'[p]
          /\ proxy'[p] # proxy[p] =>
                ipcPc[p] = "store" /\ ipcPc'[p] = "create" /\ p \notin ipcWindows
          /\ ipcPc'[p] = "store" => ipcPc[p] \in {"register", "store"}
          /\ ReceivesReserved(p) =>
                /\ proxy[p]
                /\ pc[p] \notin {"drop", "exit"} =>
                      /\ forwarded'[p] =
                            Append(forwarded[p], IpcMessageOf(Head(msgq[p])))
                      /\ userq'[p] = Append(userq[p], IpcMessageOf(Head(msgq[p])))]_vars

\* C22 witness: show and quit were received with the cell filled and both
\* were forwarded; the pump has ended on the quit.
C22_Witness ==
  \E p \in Procs :
    /\ proxy[p] /\ forwarded[p] = <<"Show", "Quit">>
    /\ ipcPc[p] = "done" /\ quitPosted[p] /\ pc[p] # "exited"

----------------------------------------------------------------------------
\* p has carried out the initial enforcement and nothing else: it holds the
\* singleton, its last AppBar write is enforced_state, which is in force, its
\* last taskbar command was a hide, no taskbar is visible, no event is handled
InitiallyHidden(p) ==
  /\ guardRes[p] = "created" /\ p \in mutexHandles
  /\ mgr[p] # NoMgr /\ mgr[p].enforced_state = BitOr(appbar0, ABS_AUTOHIDE)
  /\ lastWrite[p] = mgr[p].enforced_state /\ appbar = mgr[p].enforced_state
  /\ lastUiCmd[p] = "hide" /\ visible = {}
  /\ handled[p] = <<>> /\ uiSrc[p] = "none"

\* C23: start-up establishes Hidden before any event can be handled: the
\* listener thread (and so its window) and the monitor thread are started
\* only by a process that is InitiallyHidden, the first event is taken up
\* with VisibilityIntent true and the enforcement still in force, and no
\* event is taken up or handled by a process that has not enforced.
C23_HiddenBeforeFirstEvent ==
  /\ [](\A p \in Procs :
          (\/ ipcPc[p] # "none" \/ monPc[p] # "none" \/ p \in ipcWindows
           \/ handled[p] # <<>> \/ uiSrc[p] \in {"ipc", "tray"})
          => (/\ guardRes[p] = "created" /\ mgr[p] # NoMgr
              /\ lastWrite[p] # -1 /\ lastUiCmd[p] # "none"))
  /\ [][\A p \in Procs :
          /\ ipcPc[p] = "none" /\ ipcPc'[p] # "none" => InitiallyHidden(p)
          /\ monPc[p] = "none" /\ monPc'[p] # "none" =>
                InitiallyHidden(p) /\ should_hide[p]
          /\ handled[p] = <<>> /\ uiSrc[p] = "none" /\ uiSrc'[p] \in {"ipc", "tray"} =>
                /\ should_hide[p] /\ lastWrite[p] = mgr[p].enforced_state
                /\ lastUiCmd[p] = "hide"]_vars

\* C23 witness: auto-hide was off before the program ran; the instance has
\* its listener window and takes up its first event, a tray click, with the
\* intent true, auto-hide enforced and every taskbar hidden.
C23_Witness ==
  \E p \in Procs :
    /\ handled[p] = <<>> /\ uiSrc[p] = "tray" /\ pc[p] = "store"
    /\ p \in ipcWindows /\ monPc[p] # "none"
    /\ should_hide[p] /\ visible = {}
    /\ appbar0 # mgr[p].enforced_state /\ appbar = mgr[p].enforced_state

====
